---- MODULE Spec2Model ----
(***************************************************************************)
(* Model of the go-libraries mongo package: the generic repository         *)
(* MongoBaseRepository[T] (mongobase) over one collection, and the         *)
(* connection helper MongoClient (mongoclient).                            *)
(*                                                                         *)
(* The repository is instantiated at the entity type the tests use,        *)
(*   TestEntity{ID `bson:"_id,omitempty"`, Name `bson:"name"`,             *)
(*              Age `bson:"age"`}.                                         *)
(* The MongoDB driver and server are the environment: each driver call is  *)
(* an operator Driver... that gives the server's answer on a collection    *)
(* (a sequence of BSON documents in natural order), or fails when the      *)
(* action injects a fault.                                                 *)
(***************************************************************************)
EXTENDS Integers, Sequences, FiniteSets, TLC

\* ------------------------------------------------------------------ bounds

\* Largest number of documents the collection holds (inserts are disabled
\* beyond it).
MaxDocs == 2

\* Largest number of driver clients Connect creates in one behaviour.
MaxClients == 3

\* ------------------------------------------------------------ error values

\* Go's nil error.
Nil == "nil"
\* mongo.ErrNoDocuments: SingleResult.Decode when the find matched nothing.
ErrNoDocuments == "mongo: no documents in result"
\* Server write error 11000 (the test's "insertion error" response).
ErrDuplicateKey == "E11000 duplicate key"
\* Server write error 66: a $set that would change _id.
ErrImmutableField == "ImmutableField _id"
\* The driver call failed before the server applied anything.
ErrUnreachable == "server selection error"
\* The server applied the write, the acknowledgement was lost.
ErrLostAck == "connection closed before ack"
\* bson decoding of a document into the entity type failed.
ErrDecode == "bson decode error"
\* The cursor failed to fetch its next batch.
ErrCursor == "getMore failed"

\* Faults an action may inject into the one driver round trip it makes.
NoFault == "none"
ReadFaults == {NoFault, "unreachable"}
WriteFaults == {NoFault, "unreachable", "lostAck"}

\* -------------------------------------------------------------- BSON values

BString(s) == [t |-> "string", s |-> s, n |-> 0]
BInt(n) == [t |-> "int", s |-> "", n |-> n]
\* An ObjectID the driver generates for a document marshalled without _id.
BObjectID(k) == [t |-> "objectID", s |-> "", n |-> k]

\* ------------------------------------------------------------------ inputs

\* Identifier strings callers pass; "" is Go's zero string.
Ids == {"", "u1", "u2"}
Names == {"Ann"}
Ages == {30, 31}

\* TestEntity values callers insert.
Entities == [ID : Ids, Name : Names, Age : Ages]

\* The zero value of the entity type (var result T).
ZeroEntity == [ID |-> "", Name |-> "", Age |-> 0]

\* ---------------------------------------------------------- bson encoding

\* bson.Marshal of a TestEntity: _id is omitted when ID is the zero string
\* (the omitempty tag); name and age are always written.
Marshal(e) ==
    [k \in (IF e.ID = "" THEN {} ELSE {"_id"}) \cup {"name", "age"} |->
        CASE k = "_id" -> BString(e.ID)
          [] k = "name" -> BString(e.Name)
          [] OTHER -> BInt(e.Age)]

\* Whether a BSON value decodes into a Go string field / a Go int field.
\* An ObjectID does not decode into a string (driver v2 default).
DecodesAsString(v) == v.t = "string"
DecodesAsInt(v) == v.t = "int"

\* bson.Unmarshal of a document into a TestEntity. Elements are decoded in
\* document order (_id, name, age); an element the struct has no field for is
\* skipped, a missing element leaves the zero value, and the first element
\* of the wrong type stops the decoding with an error, the fields decoded
\* before it already set.
Unmarshal(doc) ==
    LET has(k) == k \in DOMAIN doc
        idOk == ~has("_id") \/ DecodesAsString(doc["_id"])
        nameOk == ~has("name") \/ DecodesAsString(doc["name"])
        ageOk == ~has("age") \/ DecodesAsInt(doc["age"])
        id == IF has("_id") /\ idOk THEN doc["_id"].s ELSE ""
        name == IF idOk /\ has("name") /\ nameOk THEN doc["name"].s ELSE ""
        age == IF idOk /\ nameOk /\ has("age") /\ ageOk THEN doc["age"].n ELSE 0
    IN  [value |-> [ID |-> id, Name |-> name, Age |-> age],
         err |-> IF idOk /\ nameOk /\ ageOk THEN Nil ELSE ErrDecode]

\* ------------------------------------------------------------------ filters

\* A filter (bson.M) maps field names to conditions; a condition is an
\* equality or a $gte comparison.
Eq(v) == [op |-> "$eq", val |-> v]
Gte(v) == [op |-> "$gte", val |-> v]

\* bson.M{"_id": id}
IdFilter(id) == [k \in {"_id"} |-> Eq(BString(id))]

\* The server's match of one document against a filter. A comparison only
\* matches values of the same BSON type.
Matches(doc, filter) ==
    \A k \in DOMAIN filter :
        /\ k \in DOMAIN doc
        /\ IF filter[k].op = "$eq"
           THEN doc[k] = filter[k].val
           ELSE doc[k].t = filter[k].val.t /\ doc[k].n >= filter[k].val.n

\* Positions of the documents of coll that match filter, ascending.
MatchingIndexes(coll, filter) ==
    {i \in 1..Len(coll) : Matches(coll[i], filter)}

\* The subsequence of coll at the positions in S, in collection order: the
\* order a cursor yields them.
RECURSIVE SubSeqAt(_, _, _)
SubSeqAt(coll, S, i) ==
    IF i > Len(coll) THEN <<>>
    ELSE (IF i \in S THEN <<coll[i]>> ELSE <<>>) \o SubSeqAt(coll, S, i + 1)

MatchingDocs(coll, filter) == SubSeqAt(coll, MatchingIndexes(coll, filter), 1)

\* Position of the first matching document, 0 when none matches.
FirstMatch(coll, filter) ==
    IF MatchingIndexes(coll, filter) = {} THEN 0
    ELSE CHOOSE i \in MatchingIndexes(coll, filter) :
            \A j \in MatchingIndexes(coll, filter) : i <= j

\* coll without its element at position i.
RemoveAt(coll, i) == SubSeqAt(coll, (1..Len(coll)) \ {i}, 1)

\* ------------------------------------------------------------ driver calls

\* Number of documents of coll whose _id the driver generated.
NumObjectIDs(coll) == Cardinality({i \in 1..Len(coll) : coll[i]["_id"].t = "objectID"})

\* The document the driver sends: a document marshalled without _id gets a
\* fresh ObjectID (documents with generated ids are never deleted through
\* the repository, so their count numbers the next one).
EnsureID(coll, doc) ==
    IF "_id" \in DOMAIN doc THEN doc
    ELSE [k \in DOMAIN doc \cup {"_id"} |->
            IF k = "_id" THEN BObjectID(NumObjectIDs(coll) + 1) ELSE doc[k]]

\* collection.InsertOne: the unique index on _id rejects a duplicate.
DriverInsertOne(coll, doc, fault) ==
    LET d == EnsureID(coll, doc)
        dup == \E i \in 1..Len(coll) : coll[i]["_id"] = d["_id"]
    IN  IF fault = "unreachable" THEN [coll |-> coll, err |-> ErrUnreachable]
        ELSE IF dup THEN [coll |-> coll, err |-> ErrDuplicateKey]
        ELSE [coll |-> Append(coll, d),
              err |-> IF fault = "lostAck" THEN ErrLostAck ELSE Nil]

\* collection.FindOne: the first matching document, or ErrNoDocuments held
\* in the SingleResult.
DriverFindOne(coll, filter, fault) ==
    LET i == FirstMatch(coll, filter)
    IN  IF fault = "unreachable" THEN [found |-> FALSE, at |-> 0, err |-> ErrUnreachable]
        ELSE IF i = 0 THEN [found |-> FALSE, at |-> 0, err |-> ErrNoDocuments]
        ELSE [found |-> TRUE, at |-> i, err |-> Nil]

\* SingleResult.Decode: the error the SingleResult holds, else the decoding.
SingleResultDecode(coll, sr) ==
    IF sr.err # Nil THEN [value |-> ZeroEntity, err |-> sr.err]
    ELSE Unmarshal(coll[sr.at])

\* collection.Find: a cursor over the matching documents in natural order.
DriverFind(coll, filter, fault) ==
    IF fault = "unreachable" THEN [docs |-> <<>>, err |-> ErrUnreachable]
    ELSE [docs |-> MatchingDocs(coll, filter), err |-> Nil]

\* The server's $set: each named field is overwritten or added, the others
\* are kept.
ApplySet(doc, fields) ==
    [k \in DOMAIN doc \cup DOMAIN fields |->
        IF k \in DOMAIN fields THEN fields[k] ELSE doc[k]]

\* collection.UpdateOne with an update document {"$set": fields}, no upsert:
\* the first matching document is updated; no match is a success; a $set
\* that would change _id is refused.
DriverUpdateOne(coll, filter, update, fault) ==
    LET i == FirstMatch(coll, filter)
        ack == IF fault = "lostAck" THEN ErrLostAck ELSE Nil
    IN  IF fault = "unreachable" THEN [coll |-> coll, err |-> ErrUnreachable]
        ELSE IF i = 0 THEN [coll |-> coll, err |-> ack]
        ELSE IF "_id" \in DOMAIN update["$set"] /\ update["$set"]["_id"] # coll[i]["_id"]
             THEN [coll |-> coll, err |-> ErrImmutableField]
        ELSE [coll |-> [coll EXCEPT ![i] = ApplySet(coll[i], update["$set"])],
              err |-> ack]

\* collection.DeleteOne: removes the first matching document; no match is a
\* success.
DriverDeleteOne(coll, filter, fault) ==
    LET i == FirstMatch(coll, filter)
        ack == IF fault = "lostAck" THEN ErrLostAck ELSE Nil
    IN  IF fault = "unreachable" THEN [coll |-> coll, err |-> ErrUnreachable]
        ELSE IF i = 0 THEN [coll |-> coll, err |-> ack]
        ELSE [coll |-> RemoveAt(coll, i), err |-> ack]

\* ------------------------------------------------------------- Go slices

\* var results []T : the nil slice.
NilSlice == [isNil |-> TRUE, elems |-> <<>>]
\* append(s, x): never nil.
AppendSlice(s, x) == [isNil |-> FALSE, elems |-> Append(s.elems, x)]

\* ------------------------------------------- MongoBaseRepository[TestEntity]
\* Each method is an operator from the collection and the call's inputs to
\* the collection afterwards and what the method returns: err, the error
\* the method returns; driverErr, the error the driver gave it; reqs, the
\* driver commands it issued, in order.

\* InsertOne with a fault: a failed insert is tried a second time.
InsertOne_Retry(coll, document, fault) ==
    LET r == DriverInsertOne(coll, Marshal(document), fault)
        again == DriverInsertOne(r.coll, Marshal(document), NoFault)
    IN  IF r.err # Nil
        THEN [coll |-> again.coll, err |-> again.err, driverErr |-> r.err,
              reqs |-> <<"insert", "insert">>]
        ELSE [coll |-> r.coll, err |-> Nil, driverErr |-> r.err, reqs |-> <<"insert">>]

InsertOne(coll, document, fault) ==
    LET r == DriverInsertOne(coll, Marshal(document), fault)
    IN  IF r.err # Nil
        THEN [coll |-> r.coll, err |-> r.err, driverErr |-> r.err, reqs |-> <<"insert">>]
        ELSE [coll |-> r.coll, err |-> Nil, driverErr |-> r.err, reqs |-> <<"insert">>]

\* FindOneById with a fault: the filter does not name the identifier, so the
\* first document of the collection is found.
FindOneById_NoFilter(coll, id, fault) ==
    LET filter == [k \in {} |-> Eq(BString(id))]
        d == SingleResultDecode(coll, DriverFindOne(coll, filter, fault))
    IN  [coll |-> coll, result |-> d.value, err |-> d.err,
         driverErr |-> d.err, reqs |-> <<"find">>]

\* FindOneById with a fault: ErrNoDocuments is taken for success.
FindOneById_SwallowNotFound(coll, id, fault) ==
    LET filter == IdFilter(id)
        d == SingleResultDecode(coll, DriverFindOne(coll, filter, fault))
    IN  IF d.err # Nil /\ d.err # ErrNoDocuments
        THEN [coll |-> coll, result |-> d.value, err |-> d.err,
              driverErr |-> d.err, reqs |-> <<"find">>]
        ELSE [coll |-> coll, result |-> d.value, err |-> Nil,
              driverErr |-> d.err, reqs |-> <<"find">>]

FindOneById(coll, id, fault) ==
    LET filter == IdFilter(id)
        d == SingleResultDecode(coll, DriverFindOne(coll, filter, fault))
    IN  IF d.err # Nil
        THEN [coll |-> coll, result |-> d.value, err |-> d.err,
              driverErr |-> d.err, reqs |-> <<"find">>]
        ELSE [coll |-> coll, result |-> d.value, err |-> Nil,
              driverErr |-> d.err, reqs |-> <<"find">>]

\* The loop of FindAll with a fault: a decode failure returns the entities
\* decoded before it along with the error.
RECURSIVE FindAllLoop_Partial(_, _, _, _)
FindAllLoop_Partial(docs, i, failAt, results) ==
    IF failAt = i
    THEN [results |-> NilSlice, err |-> ErrCursor, driverErr |-> ErrCursor,
          reqs |-> <<"getMore">>]
    ELSE IF i > Len(docs)
    THEN [results |-> results, err |-> Nil, driverErr |-> Nil, reqs |-> <<>>]
    ELSE LET item == Unmarshal(docs[i])
         IN  IF item.err # Nil
             THEN [results |-> results, err |-> item.err, driverErr |-> item.err,
                   reqs |-> <<>>]
             ELSE FindAllLoop_Partial(docs, i + 1, failAt, AppendSlice(results, item.value))

\* The loop of FindAll from the i-th document of the cursor on. failAt = i
\* makes cursor.Next fail to fetch the i-th document (failAt = Len(docs) + 1:
\* the fetch that would find the cursor exhausted); the loop then ends and
\* cursor.Err() gives the error.
RECURSIVE FindAllLoop(_, _, _, _)
FindAllLoop(docs, i, failAt, results) ==
    IF failAt = i
    THEN [results |-> NilSlice, err |-> ErrCursor, driverErr |-> ErrCursor,
          reqs |-> <<"getMore">>]
    ELSE IF i > Len(docs)
    THEN [results |-> results, err |-> Nil, driverErr |-> Nil, reqs |-> <<>>]
    ELSE LET item == Unmarshal(docs[i])
         IN  IF item.err # Nil
             THEN [results |-> NilSlice, err |-> item.err, driverErr |-> item.err,
                   reqs |-> <<>>]
             ELSE FindAllLoop(docs, i + 1, failAt, AppendSlice(results, item.value))

\* FindAll with a fault: an empty result is reported as not found.
FindAll_EmptyIsError(coll, filter, fault, failAt) ==
    LET c == DriverFind(coll, filter, fault)
        body == FindAllLoop(c.docs, 1, failAt, NilSlice)
    IN  IF c.err # Nil
        THEN [coll |-> coll, results |-> NilSlice, err |-> c.err, driverErr |-> c.err,
              reqs |-> <<"find">>, opened |-> 0, closed |-> 0]
        ELSE IF body.err = Nil /\ Len(body.results.elems) = 0
        THEN [coll |-> coll, results |-> NilSlice, err |-> ErrNoDocuments,
              driverErr |-> Nil, reqs |-> <<"find", "close">>,
              opened |-> 1, closed |-> 1]
        ELSE [coll |-> coll, results |-> body.results, err |-> body.err,
              driverErr |-> body.driverErr,
              reqs |-> <<"find">> \o body.reqs \o <<"close">>,
              opened |-> 1, closed |-> 1]

\* defer cursor.Close(ctx): whatever the method returns after the defer
\* statement, the cursor is closed once on the way out.
DeferClose(ret) ==
    [ret EXCEPT !.reqs = Append(@, "close"), !.closed = @ + 1]

\* FindAll with a fault: the cursor is closed by a plain call after the
\* loop instead of a defer, so the early returns (a decode failure, a
\* cursor error) leave it open.
FindAll_CloseAtEnd(coll, filter, fault, failAt) ==
    LET c == DriverFind(coll, filter, fault)
        body == FindAllLoop(c.docs, 1, failAt, NilSlice)
        ret == [coll |-> coll, results |-> body.results, err |-> body.err,
                driverErr |-> body.driverErr,
                reqs |-> <<"find">> \o body.reqs,
                opened |-> 1, closed |-> 0]
    IN  IF c.err # Nil
        THEN [coll |-> coll, results |-> NilSlice, err |-> c.err, driverErr |-> c.err,
              reqs |-> <<"find">>, opened |-> 0, closed |-> 0]
        ELSE IF body.err # Nil THEN ret
        ELSE DeferClose(ret)

\* opened and closed count the cursors the call obtained and closed. A
\* failed Find returns before the defer statement; every later return goes
\* through the deferred close.
FindAll(coll, filter, fault, failAt) ==
    LET c == DriverFind(coll, filter, fault)
        body == FindAllLoop(c.docs, 1, failAt, NilSlice)
    IN  IF c.err # Nil
        THEN [coll |-> coll, results |-> NilSlice, err |-> c.err, driverErr |-> c.err,
              reqs |-> <<"find">>, opened |-> 0, closed |-> 0]
        ELSE DeferClose([coll |-> coll, results |-> body.results, err |-> body.err,
                         driverErr |-> body.driverErr,
                         reqs |-> <<"find">> \o body.reqs,
                         opened |-> 1, closed |-> 0])

\* UpdateOneById with a fault: the mapping is sent as the whole new document
\* (no $set), so the fields it does not name are dropped.
UpdateOneById_Replace(coll, id, update, fault) ==
    LET i == FirstMatch(coll, IdFilter(id))
        r == DriverUpdateOne(coll, IdFilter(id), [k \in {"$set"} |-> update], fault)
        whole == [k \in {"_id"} \cup DOMAIN update |->
                    IF k \in DOMAIN update THEN update[k] ELSE BString(id)]
    IN  IF r.err # Nil
        THEN [coll |-> r.coll, err |-> r.err, driverErr |-> r.err, reqs |-> <<"update">>]
        ELSE [coll |-> IF i = 0 THEN coll ELSE [coll EXCEPT ![i] = whole],
              err |-> Nil, driverErr |-> r.err, reqs |-> <<"update">>]

\* UpdateOneById with a fault: the update is an upsert, so an identifier no
\* document has creates one.
UpdateOneById_Upsert(coll, id, update, fault) ==
    LET i == FirstMatch(coll, IdFilter(id))
        r == DriverUpdateOne(coll, IdFilter(id), [k \in {"$set"} |-> update], fault)
        created == [k \in {"_id"} \cup DOMAIN update |->
                      IF k = "_id" THEN BString(id) ELSE update[k]]
    IN  IF r.err # Nil
        THEN [coll |-> r.coll, err |-> r.err, driverErr |-> r.err, reqs |-> <<"update">>]
        ELSE [coll |-> IF i = 0 THEN Append(coll, created) ELSE r.coll,
              err |-> Nil, driverErr |-> r.err, reqs |-> <<"update">>]

UpdateOneById(coll, id, update, fault) ==
    LET filter == IdFilter(id)
        r == DriverUpdateOne(coll, filter, [k \in {"$set"} |-> update], fault)
    IN  IF r.err # Nil
        THEN [coll |-> r.coll, err |-> r.err, driverErr |-> r.err, reqs |-> <<"update">>]
        ELSE [coll |-> r.coll, err |-> Nil, driverErr |-> r.err, reqs |-> <<"update">>]

\* DeleteOneById with a fault: the filter does not name the identifier, so
\* the first document of the collection is deleted.
DeleteOneById_NoFilter(coll, id, fault) ==
    LET filter == [k \in {} |-> Eq(BString(id))]
        r == DriverDeleteOne(coll, filter, fault)
    IN  [coll |-> r.coll, err |-> r.err, driverErr |-> r.err, reqs |-> <<"delete">>]

DeleteOneById(coll, id, fault) ==
    LET filter == IdFilter(id)
        r == DriverDeleteOne(coll, filter, fault)
    IN  IF r.err # Nil
        THEN [coll |-> r.coll, err |-> r.err, driverErr |-> r.err, reqs |-> <<"delete">>]
        ELSE [coll |-> r.coll, err |-> Nil, driverErr |-> r.err, reqs |-> <<"delete">>]

\* ------------------------------------------------------------ more inputs

\* Update mappings (bson.M) callers pass: an entity field with a value of
\* the field's type, the same field with a value of the wrong type, and the
\* identifier field.
Updates ==
    { [k \in {"age"} |-> BInt(31)],
      [k \in {"age"} |-> BString("old")],
      [k \in {"_id"} |-> BString("u2")] }

\* Filters callers pass to FindAll: the empty filter (every document) and a
\* comparison (the tests' {"age": {"$gte": n}}).
Filters ==
    { [k \in {} |-> Eq(BInt(0))],
      [k \in {"age"} |-> Gte(BInt(31))] }

\* ------------------------------------------------------------- MongoClient

\* Errors of the client calls.
ErrParseURI == "error parsing uri"
ErrAuth == "authentication failed"
ErrContext == "context canceled"
ErrClientDisconnected == "client is disconnected"

\* What mongo.Connect may answer, and what client.Ping may answer.
ConnectOutcomes == {Nil, ErrParseURI}
PingOutcomes == {Nil, ErrUnreachable, ErrAuth}

\* A driver client just created by mongo.Connect: open, and not yet handed
\* to anybody.
NewClient == [state |-> "open", held |-> FALSE]

\* client.Ping(ctx, nil): a done context fails it with the context's error.
DriverPing(ctxDone, outcome) == IF ctxDone THEN ErrContext ELSE outcome

\* Connect with a fault: the ping's error is dropped and the connection is
\* returned all the same.
Connect_IgnorePing(cls, ctxDone, connectErr, pingErr) ==
    LET created == Append(cls, NewClient)
        ping == DriverPing(ctxDone, pingErr)
    IN  IF connectErr # Nil
        THEN [clients |-> cls, conn |-> 0, err |-> connectErr,
              driverErr |-> connectErr, reqs |-> <<"connect">>]
        ELSE [clients |-> [created EXCEPT ![Len(created)].held = TRUE],
              conn |-> Len(created), err |-> Nil,
              driverErr |-> ping, reqs |-> <<"connect", "ping">>]

\* Connect(ctx, connectionStr) of mongo_client.go. cls are the driver clients
\* created so far; connectErr is mongo.Connect's answer, pingErr the answer
\* of the ping when ctx is live; a done ctx makes the ping fail with the
\* context's error. conn is the position in clients of the client the
\* returned *MongoClient wraps, 0 for a nil *MongoClient.
Connect(cls, ctxDone, connectErr, pingErr) ==
    LET created == Append(cls, NewClient)
        ping == DriverPing(ctxDone, pingErr)
    IN  IF connectErr # Nil
        THEN [clients |-> cls, conn |-> 0, err |-> connectErr,
              driverErr |-> connectErr, reqs |-> <<"connect">>]
        ELSE IF ping # Nil
        THEN [clients |-> created, conn |-> 0, err |-> ping,
              driverErr |-> ping, reqs |-> <<"connect", "ping">>]
        ELSE [clients |-> [created EXCEPT ![Len(created)].held = TRUE],
              conn |-> Len(created), err |-> Nil,
              driverErr |-> Nil, reqs |-> <<"connect", "ping">>]

\* Connect(connectionStr) of mongo.go: the same with context.Background(),
\* which is never done.
ConnectBackground(cls, connectErr, pingErr) ==
    LET created == Append(cls, NewClient)
        ping == DriverPing(FALSE, pingErr)
    IN  IF connectErr # Nil
        THEN [clients |-> cls, conn |-> 0, err |-> connectErr,
              driverErr |-> connectErr, reqs |-> <<"connect">>]
        ELSE IF ping # Nil
        THEN [clients |-> created, conn |-> 0, err |-> ping,
              driverErr |-> ping, reqs |-> <<"connect", "ping">>]
        ELSE [clients |-> [created EXCEPT ![Len(created)].held = TRUE],
              conn |-> Len(created), err |-> Nil,
              driverErr |-> Nil, reqs |-> <<"connect", "ping">>]

\* client.Disconnect of the driver: a client already disconnected answers
\* ErrClientDisconnected; a failing disconnect leaves the client open.
DriverDisconnect(cls, c, fault) ==
    IF cls[c].state = "closed" THEN [clients |-> cls, err |-> ErrClientDisconnected]
    ELSE IF fault # NoFault THEN [clients |-> cls, err |-> ErrUnreachable]
    ELSE [clients |-> [cls EXCEPT ![c].state = "closed"], err |-> Nil]

\* (mc *MongoClient) Disconnect, on the connection wrapping client c.
Disconnect(cls, c, fault) ==
    LET r == DriverDisconnect(cls, c, fault)
    IN  IF r.err # Nil
        THEN [clients |-> r.clients, err |-> r.err, driverErr |-> r.err,
              reqs |-> <<"disconnect">>]
        ELSE [clients |-> r.clients, err |-> Nil, driverErr |-> r.err,
              reqs |-> <<"disconnect">>]

\* --------------------------------------------------------------------- state

VARIABLES
    collection,   \* the documents of the repository's collection, natural order
    before,       \* the collection as it was before the last call
    lastCall,     \* the last repository call: its inputs and what it returned
    clients,      \* the driver clients mongo.Connect has created
    lastConn      \* the last MongoClient call: its inputs and what it returned

vars == <<collection, before, lastCall, clients, lastConn>>
repoVars == <<collection, before, lastCall>>
connVars == <<clients, lastConn>>

\* For a FindOneById(id): the method of the call directly before it when that
\* call was a write on the same identifier that returned no error, else
\* "other".
Follows(id) ==
    IF /\ lastCall.op \in {"InsertOne", "UpdateOneById", "DeleteOneById"}
       /\ lastCall.err = Nil
       /\ lastCall.id = id
    THEN lastCall.op
    ELSE "other"

\* New[TestEntity](client, db, coll) over an empty collection; no MongoClient
\* call made yet.
Init ==
    /\ collection = <<>>
    /\ before = <<>>
    /\ lastCall = [op |-> "New", id |-> "", err |-> Nil, driverErr |-> Nil, reqs |-> <<>>]
    /\ clients = <<>>
    /\ lastConn = [op |-> "none", conn |-> 0, err |-> Nil, driverErr |-> Nil, reqs |-> <<>>]

\* One repository call returning r, recorded as call.
Called(r, call) ==
    /\ collection' = r.coll
    /\ before' = collection
    /\ lastCall' = call
    /\ UNCHANGED connVars

InsertOneStep ==
    \E document \in Entities, fault \in WriteFaults :
        LET r == InsertOne(collection, document, fault)
        IN  /\ Len(r.coll) <= MaxDocs
            /\ Called(r, [op |-> "InsertOne", id |-> document.ID, document |-> document,
                          fault |-> fault, err |-> r.err, driverErr |-> r.driverErr,
                          reqs |-> r.reqs])

FindOneByIdStep ==
    \E id \in Ids, fault \in ReadFaults :
        LET r == FindOneById(collection, id, fault)
        IN  Called(r, [op |-> "FindOneById", id |-> id, fault |-> fault,
                       follows |-> Follows(id),
                       result |-> r.result, err |-> r.err, driverErr |-> r.driverErr,
                       reqs |-> r.reqs])

FindAllStep ==
    \E filter \in Filters, fault \in ReadFaults :
        \E failAt \in 0..(Len(MatchingDocs(collection, filter)) + 1) :
            LET r == FindAll(collection, filter, fault, failAt)
            IN  /\ fault # NoFault => failAt = 0
                /\ Called(r, [op |-> "FindAll", id |-> "", filter |-> filter,
                              fault |-> fault, failAt |-> failAt,
                              results |-> r.results, err |-> r.err,
                              driverErr |-> r.driverErr, reqs |-> r.reqs,
                              opened |-> r.opened, closed |-> r.closed])

UpdateOneByIdStep ==
    \E id \in Ids, update \in Updates, fault \in WriteFaults :
        LET r == UpdateOneById(collection, id, update, fault)
        IN  Called(r, [op |-> "UpdateOneById", id |-> id, update |-> update,
                       fault |-> fault, err |-> r.err, driverErr |-> r.driverErr,
                       reqs |-> r.reqs])

DeleteOneByIdStep ==
    \E id \in Ids, fault \in WriteFaults :
        LET r == DeleteOneById(collection, id, fault)
        IN  Called(r, [op |-> "DeleteOneById", id |-> id, fault |-> fault,
                       err |-> r.err, driverErr |-> r.driverErr, reqs |-> r.reqs])

Next ==
    \/ InsertOneStep
    \/ FindOneByIdStep
    \/ FindAllStep
    \/ UpdateOneByIdStep
    \/ DeleteOneByIdStep

Spec == Init /\ [][Next]_vars

\* ------------------------------------------------- the connection manager

ConnectStep ==
    \E ctxDone \in BOOLEAN, connectErr \in ConnectOutcomes, pingErr \in PingOutcomes :
        LET r == Connect(clients, ctxDone, connectErr, pingErr)
        IN  /\ Len(r.clients) <= MaxClients
            /\ clients' = r.clients
            /\ lastConn' = [op |-> "Connect", ctxDone |-> ctxDone, conn |-> r.conn,
                            connectErr |-> connectErr, pingErr |-> pingErr,
                            err |-> r.err, driverErr |-> r.driverErr, reqs |-> r.reqs]
            /\ UNCHANGED repoVars

ConnectBackgroundStep ==
    \E connectErr \in ConnectOutcomes, pingErr \in PingOutcomes :
        LET r == ConnectBackground(clients, connectErr, pingErr)
        IN  /\ Len(r.clients) <= MaxClients
            /\ clients' = r.clients
            /\ lastConn' = [op |-> "ConnectBackground", ctxDone |-> FALSE, conn |-> r.conn,
                            connectErr |-> connectErr, pingErr |-> pingErr,
                            err |-> r.err, driverErr |-> r.driverErr, reqs |-> r.reqs]
            /\ UNCHANGED repoVars

DisconnectStep ==
    \E c \in 1..Len(clients), fault \in ReadFaults :
        LET r == Disconnect(clients, c, fault)
        IN  /\ clients[c].held
            /\ clients' = r.clients
            /\ lastConn' = [op |-> "Disconnect", conn |-> c, fault |-> fault,
                            err |-> r.err, driverErr |-> r.driverErr, reqs |-> r.reqs]
            /\ UNCHANGED repoVars

ConnNext ==
    \/ ConnectStep
    \/ ConnectBackgroundStep
    \/ DisconnectStep

ConnSpec == Init /\ [][ConnNext]_vars

\* ==================================================================== claims

\* The writes of the repository.
Writes == {"InsertOne", "UpdateOneById", "DeleteOneById"}

\* Whether some document of coll has _id equal to the string id.
HasId(coll, id) == \E i \in 1..Len(coll) : coll[i]["_id"] = BString(id)

\* The document of coll with _id equal to the string id (when HasId).
DocOf(coll, id) == coll[CHOOSE i \in 1..Len(coll) : coll[i]["_id"] = BString(id)]

\* A FindOneById(id) step taken directly after the call lastCall, its own
\* driver round trip not failing.
FindFollows(op) ==
    /\ lastCall.op = op
    /\ lastCall.err = Nil
    /\ lastCall'.op = "FindOneById"
    /\ lastCall'.id = lastCall.id
    /\ lastCall'.fault = NoFault

\* --------------------------------------------------------------------- C1

\* C1 as stated: for every entity e, any identifier included, when
\* InsertOne(e) returns no error the FindOneById(e.ID) that directly follows
\* returns no error and a value equal to e.
C1_AnyIdentifier ==
    [][FindFollows("InsertOne")
        => lastCall'.err = Nil /\ lastCall'.result = lastCall.document]_vars

\* C1 amended: for every entity e whose ID is not the empty string, when
\* InsertOne(e) returns no error the FindOneById(e.ID) that directly follows
\* returns no error and a value equal to e.
C1_InsertThenFind ==
    [][FindFollows("InsertOne") /\ lastCall.document.ID # ""
        => lastCall'.err = Nil /\ lastCall'.result = lastCall.document]_vars

\* A FindOneById that directly followed the successful insert of an entity
\* with a non-empty ID, into a collection holding another document, and gave
\* the entity back.
C1_Witness ==
    /\ lastCall.op = "FindOneById"
    /\ lastCall.follows = "InsertOne"
    /\ lastCall.id # ""
    /\ lastCall.fault = NoFault
    /\ lastCall.err = Nil
    /\ lastCall.result.ID = lastCall.id
    /\ Len(collection) >= 2

\* --------------------------------------------------------------------- C2

\* C2: whenever no document of the collection has _id equal to id,
\* FindOneById(id) returns a non-nil error (so never the zero entity with a
\* nil error).
C2_NotFoundIsError ==
    (lastCall.op = "FindOneById" /\ ~HasId(before, lastCall.id))
        => /\ lastCall.err # Nil
           /\ ~(lastCall.result = ZeroEntity /\ lastCall.err = Nil)
           /\ (lastCall.fault = NoFault => lastCall.err = ErrNoDocuments)

\* A FindOneById of an identifier no document has, on a collection that
\* holds documents, answered by the driver with ErrNoDocuments.
C2_Witness ==
    /\ lastCall.op = "FindOneById"
    /\ ~HasId(before, lastCall.id)
    /\ Len(before) >= 1
    /\ lastCall.fault = NoFault
    /\ lastCall.err = ErrNoDocuments

\* --------------------------------------------------------------------- C3

\* C3: a FindOneById(id) that directly follows a DeleteOneById(id) which
\* returned no error returns an error, and that error is the not-found
\* error unless the find's own driver round trip failed.
C3_DeleteThenFind ==
    (lastCall.op = "FindOneById" /\ lastCall.follows = "DeleteOneById")
        => /\ lastCall.err # Nil
           /\ (lastCall.fault = NoFault => lastCall.err = ErrNoDocuments)

\* A FindOneById directly after a successful DeleteOneById of the same
\* identifier, other documents still stored, answered not-found.
C3_Witness ==
    /\ lastCall.op = "FindOneById"
    /\ lastCall.follows = "DeleteOneById"
    /\ lastCall.fault = NoFault
    /\ lastCall.err = ErrNoDocuments
    /\ Len(collection) >= 1

\* --------------------------------------------------------------------- C4

\* The BSON elements the entity type has fields for.
EntityFields == {"_id", "name", "age"}

\* Whether an update mapping names only fields of the entity type, with
\* values of those fields' types.
TypedUpdate(u) ==
    \A k \in DOMAIN u :
        /\ k \in EntityFields
        /\ k \in {"_id", "name"} => DecodesAsString(u[k])
        /\ k = "age" => DecodesAsInt(u[k])

\* A FindOneById(id) step directly after an UpdateOneById(id, u) that
\* returned no error and found a stored document with that identifier
\* (before is the collection as the update found it).
FindFollowsUpdate ==
    /\ FindFollows("UpdateOneById")
    /\ HasId(before, lastCall.id)

\* What C4 says of that find: it returns the document in which the fields u
\* names carry u's values and every other field the value it had before the
\* update, and no other document of the collection changed.
UpdateReflected ==
    /\ lastCall'.err = Nil
    /\ \A k \in EntityFields :
          Marshal(lastCall'.result)[k] =
              IF k \in DOMAIN lastCall.update
              THEN lastCall.update[k]
              ELSE DocOf(before, lastCall.id)[k]
    /\ Len(collection) = Len(before)
    /\ \A i \in 1..Len(before) :
          before[i]["_id"] # BString(lastCall.id) => collection[i] = before[i]

\* C4 as stated: for any update mapping u.
C4_AnyUpdate == [][FindFollowsUpdate => UpdateReflected]_vars

\* C4 amended: for a stored document that decodes into the entity type and
\* an update mapping u that names only fields of the entity type, with values
\* of those fields' types, after UpdateOneById(id, u) returns no error FindOneById(id) returns
\* the document in which exactly the fields named in u carry u's values and
\* every other field has the value it had before; no other document changes.
C4_TypedUpdate ==
    [][(/\ FindFollowsUpdate
        /\ TypedUpdate(lastCall.update)
        /\ Unmarshal(DocOf(before, lastCall.id)).err = Nil)
        => UpdateReflected]_vars

\* A FindOneById directly after a successful update of a stored document, a
\* second document stored beside it, that returned the entity with the
\* update's age and the name it had.
C4_Witness ==
    /\ lastCall.op = "FindOneById"
    /\ lastCall.follows = "UpdateOneById"
    /\ lastCall.fault = NoFault
    /\ lastCall.err = Nil
    /\ lastCall.result.Age = 31
    /\ lastCall.result.Name = "Ann"
    /\ Len(collection) >= 2

\* --------------------------------------------------------------------- C5

\* The documents a FindAll call's cursor yields: those of the collection the
\* call found that match its filter, in natural order.
Yielded == MatchingDocs(before, lastCall.filter)

\* A FindAll call whose driver round trips (the find and the cursor's
\* fetches) did not fail.
FindAllServed ==
    /\ lastCall.op = "FindAll"
    /\ lastCall.fault = NoFault
    /\ lastCall.failAt = 0

\* C5: when the N yielded documents all decode, FindAll returns no error and
\* exactly their N decodings in cursor order; when one fails to decode it
\* returns an error and no entities at all.
C5_AllOrNothing ==
    FindAllServed =>
        IF \A i \in 1..Len(Yielded) : Unmarshal(Yielded[i]).err = Nil
        THEN /\ lastCall.err = Nil
             /\ Len(lastCall.results.elems) = Len(Yielded)
             /\ \A i \in 1..Len(Yielded) :
                   lastCall.results.elems[i] = Unmarshal(Yielded[i]).value
        ELSE /\ lastCall.err # Nil
             /\ lastCall.results.elems = <<>>

\* A FindAll whose cursor yielded a document that decodes and then one that
\* does not: the call failed with nothing returned.
C5_Witness ==
    /\ FindAllServed
    /\ Len(Yielded) >= 2
    /\ Unmarshal(Yielded[1]).err = Nil
    /\ Unmarshal(Yielded[2]).err # Nil
    /\ lastCall.err = ErrDecode
    /\ lastCall.results.elems = <<>>

\* --------------------------------------------------------------------- C6

\* C6: a FindAll whose filter matches no document returns a sequence of
\* length zero and no error.
C6_EmptyMatch ==
    (FindAllServed /\ Len(Yielded) = 0)
        => lastCall.err = Nil /\ Len(lastCall.results.elems) = 0

\* A FindAll over a collection that holds documents, none matching the filter.
C6_Witness ==
    /\ FindAllServed
    /\ Len(before) >= 1
    /\ Len(Yielded) = 0
    /\ lastCall.err = Nil

\* --------------------------------------------------------------------- C7

\* C7: the value a successful FindAll returns is never the nil slice.
C7_NeverNil ==
    (lastCall.op = "FindAll" /\ lastCall.err = Nil) => ~lastCall.results.isNil

\* --------------------------------------------------------------------- C8

\* C8: UpdateOneById(id, u) and DeleteOneById(id) with an identifier no
\* document has leave the collection exactly as it was, and return no error
\* (the driver round trip not failing).
C8_NoMatchNoEffect ==
    (/\ lastCall.op \in {"UpdateOneById", "DeleteOneById"}
     /\ ~HasId(before, lastCall.id))
        => /\ collection = before
           /\ (lastCall.fault = NoFault => lastCall.err = Nil)

\* An UpdateOneById of an identifier no stored document has, on a collection
\* that holds documents, that returned no error.
C8_Witness ==
    /\ lastCall.op = "UpdateOneById"
    /\ ~HasId(before, lastCall.id)
    /\ Len(before) >= 1
    /\ lastCall.fault = NoFault
    /\ lastCall.err = Nil
    /\ collection = before

\* --------------------------------------------------------------------- C9

\* Whether no driver command occurs twice in reqs.
NoRepeat(reqs) == \A i, j \in 1..Len(reqs) : i # j => reqs[i] # reqs[j]

\* C9: Connect returns a non-nil connection exactly when the client
\* construction and the ping both succeed; when either fails it returns a
\* nil connection and that failure's error; construction and ping are each
\* attempted at most once.
C9_ConnectAllOrNothing ==
    lastConn.op \in {"Connect", "ConnectBackground"} =>
        LET ping == DriverPing(lastConn.ctxDone, lastConn.pingErr)
            ok == lastConn.connectErr = Nil /\ ping = Nil
        IN  /\ lastConn.conn # 0 <=> ok
            /\ ok => /\ lastConn.err = Nil
                     /\ clients[lastConn.conn] = [state |-> "open", held |-> TRUE]
            /\ ~ok => lastConn.err =
                        (IF lastConn.connectErr # Nil THEN lastConn.connectErr ELSE ping)
            /\ NoRepeat(lastConn.reqs)

\* A Connect whose client was constructed and whose ping was refused: nil
\* connection, the ping's error.
C9_Witness ==
    /\ lastConn.op = "Connect"
    /\ lastConn.connectErr = Nil
    /\ ~lastConn.ctxDone
    /\ lastConn.pingErr = ErrAuth
    /\ lastConn.conn = 0
    /\ lastConn.err = ErrAuth
    /\ lastConn.reqs = <<"connect", "ping">>

\* -------------------------------------------------------------------- C10

\* The collection as the driver call of the last repository call left it.
DriverLeft ==
    CASE lastCall.op = "InsertOne" ->
            DriverInsertOne(before, Marshal(lastCall.document), lastCall.fault).coll
      [] lastCall.op = "UpdateOneById" ->
            DriverUpdateOne(before, IdFilter(lastCall.id),
                            [k \in {"$set"} |-> lastCall.update], lastCall.fault).coll
      [] lastCall.op = "DeleteOneById" ->
            DriverDeleteOne(before, IdFilter(lastCall.id), lastCall.fault).coll
      [] OTHER -> before

\* C10: when the driver call of InsertOne, FindOneById, FindAll,
\* UpdateOneById or DeleteOneById fails, the method returns the driver's
\* error value itself, repeats no driver command, and leaves the collection
\* as the failed driver call left it.
C10_ErrorsVerbatim ==
    (/\ lastCall.op \in Writes \cup {"FindOneById", "FindAll"}
     /\ lastCall.driverErr # Nil)
        => /\ lastCall.err = lastCall.driverErr
           /\ NoRepeat(lastCall.reqs)
           /\ lastCall.op # "FindAll" => Len(lastCall.reqs) = 1
           /\ collection = DriverLeft

\* An InsertOne the server refused with a duplicate key (the tests'
\* "insertion error"): the error came back as it was, after one insert command.
C10_Witness ==
    /\ lastCall.op = "InsertOne"
    /\ lastCall.fault = NoFault
    /\ lastCall.driverErr = ErrDuplicateKey
    /\ lastCall.err = ErrDuplicateKey
    /\ lastCall.reqs = <<"insert">>
    /\ collection = before

\* -------------------------------------------------------------------- C11

\* C11: every driver client Connect has created is, once Connect has
\* returned, either held by the caller inside the returned connection or
\* disconnected: no client is open and held by nobody.
C11_NoOrphanClient ==
    \A c \in 1..Len(clients) :
        clients[c].state = "open" => clients[c].held

\* -------------------------------------------------------------------- C12

\* How many times a driver command occurs in reqs.
Occurrences(reqs, cmd) == Cardinality({i \in 1..Len(reqs) : reqs[i] = cmd})

\* C12: a FindAll whose driver Find succeeded obtained one cursor and closed
\* it exactly once by the time it returned, whichever way it returned
\* (exhaustion, a decode failure, a cursor error), the close being the last
\* thing it did; a FindAll whose Find failed opened no cursor and closed none.
C12_CursorClosedOnce ==
    lastCall.op = "FindAll" =>
        IF lastCall.fault = NoFault
        THEN /\ lastCall.opened = 1
             /\ lastCall.closed = 1
             /\ Occurrences(lastCall.reqs, "close") = 1
             /\ lastCall.reqs[Len(lastCall.reqs)] = "close"
        ELSE /\ lastCall.opened = 0
             /\ lastCall.closed = 0
             /\ Occurrences(lastCall.reqs, "close") = 0

\* A FindAll that returned early on a document that does not decode, after
\* decoding one, with its cursor closed once.
C12_Witness ==
    /\ lastCall.op = "FindAll"
    /\ lastCall.fault = NoFault
    /\ lastCall.failAt = 0
    /\ Len(MatchingDocs(before, lastCall.filter)) >= 2
    /\ Unmarshal(MatchingDocs(before, lastCall.filter)[1]).err = Nil
    /\ lastCall.err = ErrDecode
    /\ lastCall.opened = 1
    /\ lastCall.closed = 1

====
